---- MODULE Spec2Model ----
(***************************************************************************)
(* A model of src/src/database.py: the SQLite store of the finance         *)
(* dashboard (one shared connection DB_CONN, one write lock WRITE) and the *)
(* two reconcilers upsert_accounts and upsert_transactions.                *)
(*                                                                         *)
(* Text is a sequence of one-character strings, so that the f-string       *)
(* interpolation of a value between double quotes and SQLite's reading of  *)
(* the resulting token are computed, not assumed.                          *)
(***************************************************************************)
EXTENDS Integers, Sequences, FiniteSets, TLC

\* ------------------------------------------------------------------ bounds

\* Calls started in one behaviour (over all threads).
MaxCalls == 2

\* Rows in one DataFrame handed to upsert_accounts / upsert_transactions.
MaxRows == 2

Threads == {1, 2}

\* ------------------------------------------------------------------- text

DQ == "\""

UPPER == <<"A","B","C","D","E","F","G","H","I","J","K","L","M",
           "N","O","P","Q","R","S","T","U","V","W","X","Y","Z">>

LOWER == <<"a","b","c","d","e","f","g","h","i","j","k","l","m",
           "n","o","p","q","r","s","t","u","v","w","x","y","z">>

DIGITS == <<"0","1","2","3","4","5","6","7","8","9">>

\* SQLite compares identifiers without regard to case.
LowerChar(c) ==
    IF \E k \in 1..Len(UPPER) : UPPER[k] = c
    THEN LOWER[CHOOSE k \in 1..Len(UPPER) : UPPER[k] = c]
    ELSE c

LowerText(s) == [k \in 1..Len(s) |-> LowerChar(s[k])]

\* str(n) of a non-negative integer, as {row['balance']} formats it.
RECURSIVE IntToText(_)
IntToText(n) ==
    IF n < 10 THEN <<DIGITS[n + 1]>>
    ELSE IntToText(n \div 10) \o <<DIGITS[(n % 10) + 1]>>

IsDigits(s) ==
    /\ Len(s) > 0
    /\ \A k \in 1..Len(s) : \E d \in 1..10 : DIGITS[d] = s[k]

DigitValue(c) == (CHOOSE d \in 1..10 : DIGITS[d] = c) - 1

\* The integer a numeric literal (or a numeric text under INTEGER affinity) denotes.
RECURSIVE TextToInt(_)
TextToInt(s) ==
    IF Len(s) = 1 THEN DigitValue(s[1])
    ELSE 10 * TextToInt(SubSeq(s, 1, Len(s) - 1)) + DigitValue(s[Len(s)])

\* "{value}" : the f-string puts the value between two double quotes, unescaped.
Quote(v) == <<DQ>> \o v \o <<DQ>>

Malformed == [ok |-> FALSE, text |-> <<>>]

\* SQLite's tokenizer on a double-quoted token starting at s[1]: "" inside the
\* token is one quote character, a single " ends it.  The token must end
\* exactly where the interpolated field ends: for the texts enumerated in this
\* model, a token that ends earlier, or runs on into the statement's template,
\* leaves a statement that SQLite rejects (OperationalError: syntax error).
RECURSIVE ScanDQ(_, _, _)
ScanDQ(s, j, acc) ==
    IF j > Len(s) THEN Malformed
    ELSE IF s[j] = DQ
         THEN IF j + 1 <= Len(s) /\ s[j + 1] = DQ
              THEN ScanDQ(s, j + 2, Append(acc, DQ))
              ELSE IF j = Len(s) THEN [ok |-> TRUE, text |-> acc] ELSE Malformed
         ELSE ScanDQ(s, j + 1, Append(acc, s[j]))

DQToken(s) == ScanDQ(s, 2, <<>>)

\* A column's value is tagged with its storage class.
TextVal(s) == [class |-> "text", text |-> s, int |-> 0]
IntVal(n) == [class |-> "int", text |-> <<>>, int |-> n]

\* Column affinity TEXT: an integer is stored as its decimal text.
CastText(val) == IF val.class = "int" THEN IntToText(val.int) ELSE val.text


\* ----------------------------------------------------------------- schema

\* The columns of Accounts (CREATE TABLE of db_init), lower-cased.
AccountsColumnNames ==
    { <<"i","d">>,
      <<"d","i","s","p","l","a","y","n","a","m","e">>,
      <<"a","c","c","o","u","n","t","t","y","p","e">>,
      <<"o","w","n","e","r","s","h","i","p","t","y","p","e">>,
      <<"b","a","l","a","n","c","e">>,
      <<"c","r","e","a","t","e","d">>,
      <<"d","e","l","e","t","e","d">> }

\* The value of the column named `name` (lower-cased) in Accounts row r.
AccountsColumn(r, name) ==
    CASE name = <<"i","d">> -> TextVal(r.id)
      [] name = <<"d","i","s","p","l","a","y","n","a","m","e">> -> TextVal(r.displayName)
      [] name = <<"a","c","c","o","u","n","t","t","y","p","e">> -> TextVal(r.accountType)
      [] name = <<"o","w","n","e","r","s","h","i","p","t","y","p","e">> -> TextVal(r.ownershipType)
      [] name = <<"b","a","l","a","n","c","e">> -> IntVal(r.balance)
      [] name = <<"c","r","e","a","t","e","d">> -> TextVal(r.created)
      [] name = <<"d","e","l","e","t","e","d">> -> IntVal(r.deleted)

\* The columns of Transactions (CREATE TABLE of db_init), lower-cased.
TransactionsColumnNames ==
    { <<"i","d">>,
      <<"s","t","a","t","u","s">>,
      <<"r","a","w","t","e","x","t">>,
      <<"d","e","s","c","r","i","p","t","i","o","n">>,
      <<"m","e","s","s","a","g","e">>,
      <<"i","s","c","a","t","e","g","o","r","i","z","a","b","l","e">>,
      <<"h","e","l","d">>,
      <<"h","e","l","d","a","m","o","u","n","t">>,
      <<"r","o","u","n","d","u","p","a","m","o","u","n","t">>,
      <<"b","o","o","s","t","p","r","o","p","o","r","t","i","o","n">>,
      <<"c","a","s","h","b","a","c","k","d","e","s","c">>,
      <<"c","a","s","h","b","a","c","k","a","m","o","u","n","t">>,
      <<"a","m","o","u","n","t">>,
      <<"f","o","r","e","i","g","n","c","u","r","r","e","n","c","y">>,
      <<"f","o","r","e","i","g","n","a","m","o","u","n","t">>,
      <<"c","a","r","d","p","u","r","c","h","a","s","e","m","e","t","h","o","d">>,
      <<"c","a","r","d","n","u","m","b","e","r","s","u","f","f","i","x">>,
      <<"s","e","t","t","l","e","d","a","t">>,
      <<"c","r","e","a","t","e","d","a","t">>,
      <<"a","c","c","o","u","n","t">>,
      <<"t","r","a","n","s","f","e","r","a","c","c","o","u","n","t">>,
      <<"c","a","t","e","g","o","r","y">>,
      <<"p","a","r","e","n","t","c","a","t","e","g","o","r","y">> }

\* The value of the column named `name` (lower-cased) in Transactions row r.
TransactionsColumn(r, name) ==
    CASE name = <<"i","d">> -> TextVal(r.id)
      [] name = <<"s","t","a","t","u","s">> -> TextVal(r.status)
      [] name = <<"r","a","w","t","e","x","t">> -> TextVal(r.rawText)
      [] name = <<"d","e","s","c","r","i","p","t","i","o","n">> -> TextVal(r.description)
      [] name = <<"m","e","s","s","a","g","e">> -> TextVal(r.message)
      [] name = <<"i","s","c","a","t","e","g","o","r","i","z","a","b","l","e">> -> IntVal(r.isCategorizable)
      [] name = <<"h","e","l","d">> -> IntVal(r.held)
      [] name = <<"h","e","l","d","a","m","o","u","n","t">> -> IntVal(r.heldAmount)
      [] name = <<"r","o","u","n","d","u","p","a","m","o","u","n","t">> -> IntVal(r.roundUpAmount)
      [] name = <<"b","o","o","s","t","p","r","o","p","o","r","t","i","o","n">> -> IntVal(r.boostProportion)
      [] name = <<"c","a","s","h","b","a","c","k","d","e","s","c">> -> TextVal(r.cashbackDesc)
      [] name = <<"c","a","s","h","b","a","c","k","a","m","o","u","n","t">> -> IntVal(r.cashbackAmount)
      [] name = <<"a","m","o","u","n","t">> -> IntVal(r.amount)
      [] name = <<"f","o","r","e","i","g","n","c","u","r","r","e","n","c","y">> -> TextVal(r.foreignCurrency)
      [] name = <<"f","o","r","e","i","g","n","a","m","o","u","n","t">> -> IntVal(r.foreignAmount)
      [] name = <<"c","a","r","d","p","u","r","c","h","a","s","e","m","e","t","h","o","d">> -> TextVal(r.cardPurchaseMethod)
      [] name = <<"c","a","r","d","n","u","m","b","e","r","s","u","f","f","i","x">> -> TextVal(r.cardNumberSuffix)
      [] name = <<"s","e","t","t","l","e","d","a","t">> -> TextVal(r.settledAt)
      [] name = <<"c","r","e","a","t","e","d","a","t">> -> TextVal(r.createdAt)
      [] name = <<"a","c","c","o","u","n","t">> -> TextVal(r.account)
      [] name = <<"t","r","a","n","s","f","e","r","a","c","c","o","u","n","t">> -> TextVal(r.transferAccount)
      [] name = <<"c","a","t","e","g","o","r","y">> -> TextVal(r.category)
      [] name = <<"p","a","r","e","n","t","c","a","t","e","g","o","r","y">> -> TextVal(r.parentCategory)

\* ResolveDQ: SQLite reads a double-quoted token as an identifier first: when
\* it names a column of the table in scope (an UPDATE's SET and WHERE), it is
\* that column's value in the row at hand; otherwise it is a string literal.
ResolveAccounts(text, r) ==
    IF LowerText(text) \in AccountsColumnNames
    THEN AccountsColumn(r, LowerText(text))
    ELSE TextVal(text)

ResolveTransactions(text, r) ==
    IF LowerText(text) \in TransactionsColumnNames
    THEN TransactionsColumn(r, LowerText(text))
    ELSE TextVal(text)

\* Column affinity INTEGER of a value: a text of digits becomes the integer.
\* (The texts this model writes to an INTEGER column are all digits.)
CastInteger(val) == IF val.class = "int" THEN val.int ELSE TextToInt(val.text)

\* A table of the database is absent, or as db_init's CREATE TABLE declares it
\* (its columns, PRIMARY KEY (id)), or as DataFrame.to_sql(if_exists='append')
\* creates it when it is missing (the frame's columns, no primary key).
NoTable == "absent"

\* CREATE TABLE IF NOT EXISTS Accounts (... PRIMARY KEY (id))
AccountsSchema == "declared"

\* CREATE TABLE IF NOT EXISTS Transactions (... PRIMARY KEY (id), ...)
TransactionsSchema == "declared"

InferredTransactionsSchema == "inferred"

Exists(schema) == schema # NoTable

HasPrimaryKey(schema) == schema = "declared"

AccountsColumnSet ==
    {"id", "displayName", "accountType", "ownershipType", "balance", "created",
     "deleted"}

TransactionsColumnSet ==
    {"id", "status", "rawText", "description", "message", "isCategorizable",
     "held", "heldAmount", "roundUpAmount", "boostProportion", "cashbackDesc",
     "cashbackAmount", "amount", "foreignCurrency", "foreignAmount",
     "cardPurchaseMethod", "cardNumberSuffix", "settledAt", "createdAt",
     "account", "transferAccount", "category", "parentCategory"}

\* The columns of a table: the frames handed to to_sql have the columns of
\* the Transactions table.
Columns(table, schema) ==
    IF ~Exists(schema) THEN {}
    ELSE IF table = "Accounts" THEN AccountsColumnSet ELSE TransactionsColumnSet

\* A fresh finance.db: sqlite3.connect creates the file, with no table.
FreshDb ==
    [tables |-> [Accounts |-> NoTable, Transactions |-> NoTable],
     accounts |-> {},
     txns |-> << >>]

\* DROP TABLE IF EXISTS <table>; CREATE TABLE <table>: what C8 must not survive.
CreateTableAnew(d, table, schema) ==
    [d EXCEPT !.tables[table] = schema,
              !.accounts = IF table = "Accounts" THEN {} ELSE @,
              !.txns = IF table = "Transactions" THEN << >> ELSE @]

\* CREATE TABLE IF NOT EXISTS <table>: nothing when the table exists.
CreateTableIfNotExists(d, table, schema) ==
    IF Exists(d.tables[table]) THEN d
    ELSE [d EXCEPT !.tables[table] = schema]


\* ------------------------------------------------------------- statements

\* A statement is the text pieces the f-string interpolates, in order; the
\* fixed text around them is named by `kind`.
NoQuery == [kind |-> "NONE", args |-> << >>]

\* UPDATE Accounts SET displayName = "{displayName}", balance = {balance}
\* WHERE id = "{id}"
UpdateAccountQuery(row) ==
    [kind |-> "UPDATE_ACCOUNT",
     args |-> <<Quote(row.displayName), IntToText(row.balance), Quote(row.id)>>]

\* INSERT INTO Accounts (id, displayName, accountType, ownershipType, balance,
\* created) VALUES ("{id}", "{displayName}", "{accountType}",
\* "{ownershipType}", {balance}, "{created}")
InsertAccountQuery(row) ==
    [kind |-> "INSERT_ACCOUNT",
     args |-> <<Quote(row.id), Quote(row.displayName), Quote(row.accountType),
                Quote(row.ownershipType), IntToText(row.balance),
                Quote(row.created)>>]

\* UPDATE Accounts SET deleted = 1, balance = 0 WHERE id = "{id}"
DeleteAccountQuery(id) ==
    [kind |-> "DELETE_ACCOUNT", args |-> <<Quote(id)>>]

\* UPDATE Transactions SET status = "{status}", cashbackDesc = "{cashbackDesc}",
\* cashbackAmount = "{cashbackAmount}", settledAt = "{settledAt}",
\* category = "{category}", parentCategory = "{parentCategory}"
\* WHERE id = "{id}"
UpdateTransactionQuery(row) ==
    [kind |-> "UPDATE_TRANSACTION",
     args |-> <<Quote(row.status), Quote(row.cashbackDesc),
                Quote(IntToText(row.cashbackAmount)), Quote(row.settledAt),
                Quote(row.category), Quote(row.parentCategory),
                Quote(row.id)>>]

\* What cur.execute(query) gives: the error it raises ("none": it returns),
\* the connection's view afterwards, and whether the sqlite3 module opened a
\* transaction for it (it issues BEGIN before a DML statement it could
\* prepare; a statement that does not prepare raises before that).
Raised(err, d, began) == [error |-> err, db |-> d, began |-> began]

Returned(d) == [error |-> "none", db |-> d, began |-> TRUE]

AllTokensOk(args, quoted) == \A k \in quoted : DQToken(args[k]).ok

\* An update that writes displayName and leaves balance for later: what C7
\* must not survive.
UpdateAccountRowDisplayNameOnly(r, args) ==
    [r EXCEPT !.displayName = CastText(ResolveAccounts(DQToken(args[1]).text, r))]

\* An update that also revives the row (deleted = 0): what C11 must not survive.
UpdateAccountRowUndeletes(r, args) ==
    [r EXCEPT !.displayName = CastText(ResolveAccounts(DQToken(args[1]).text, r)),
              !.balance = TextToInt(args[2]),
              !.deleted = 0]

\* SET displayName = ..., balance = ... of one Accounts row.
UpdateAccountRow(r, args) ==
    [r EXCEPT !.displayName = CastText(ResolveAccounts(DQToken(args[1]).text, r)),
              !.balance = TextToInt(args[2])]

\* WHERE id = "<id>" on one Accounts row.
AccountIdMatches(r, idArg) ==
    ResolveAccounts(DQToken(idArg).text, r) = TextVal(r.id)

ExecUpdateAccount(q, d) ==
    IF ~Exists(d.tables.Accounts) \/ ~AllTokensOk(q.args, {1, 3}) \/ ~IsDigits(q.args[2])
    THEN Raised("OperationalError", d, FALSE)
    ELSE Returned([d EXCEPT !.accounts =
            { IF AccountIdMatches(r, q.args[3]) THEN UpdateAccountRow(r, q.args) ELSE r
              : r \in d.accounts }])

\* The row INSERT INTO Accounts ... VALUES (...) adds: no column is in scope in
\* VALUES, so each double-quoted token is a string literal; deleted takes its
\* DEFAULT 0.
InsertedAccountRow(args) ==
    [id |-> DQToken(args[1]).text,
     displayName |-> DQToken(args[2]).text,
     accountType |-> DQToken(args[3]).text,
     ownershipType |-> DQToken(args[4]).text,
     balance |-> TextToInt(args[5]),
     created |-> DQToken(args[6]).text,
     deleted |-> 0]

ExecInsertAccount(q, d) ==
    IF ~Exists(d.tables.Accounts) \/ ~AllTokensOk(q.args, {1, 2, 3, 4, 6}) \/ ~IsDigits(q.args[5])
    THEN Raised("OperationalError", d, FALSE)
    ELSE IF \E r \in d.accounts : r.id = InsertedAccountRow(q.args).id
         THEN Raised("IntegrityError", d, TRUE)
         ELSE Returned([d EXCEPT !.accounts = @ \cup {InsertedAccountRow(q.args)}])

\* A soft delete that also blanks the account's type: what C12 must not survive.
DeleteAccountRowBlanksType(r) ==
    [r EXCEPT !.deleted = 1, !.balance = 0, !.accountType = << >>]

\* SET deleted = 1, balance = 0 of one Accounts row.
DeleteAccountRow(r) == [r EXCEPT !.deleted = 1, !.balance = 0]

\* A DELETE FROM Accounts in place of the soft delete: what C5 must not survive.
ExecDeleteAccountRemoves(q, d) ==
    IF ~Exists(d.tables.Accounts) \/ ~AllTokensOk(q.args, {1})
    THEN Raised("OperationalError", d, FALSE)
    ELSE Returned([d EXCEPT !.accounts =
            { r \in d.accounts : ~AccountIdMatches(r, q.args[1]) }])

ExecDeleteAccount(q, d) ==
    IF ~Exists(d.tables.Accounts) \/ ~AllTokensOk(q.args, {1})
    THEN Raised("OperationalError", d, FALSE)
    ELSE Returned([d EXCEPT !.accounts =
            { IF AccountIdMatches(r, q.args[1]) THEN DeleteAccountRow(r) ELSE r
              : r \in d.accounts }])

\* SET status = ..., ..., parentCategory = ... of one Transactions row: every
\* right-hand side is evaluated on the row as it was.
UpdateTransactionRow(r, args) ==
    [r EXCEPT !.status = CastText(ResolveTransactions(DQToken(args[1]).text, r)),
              !.cashbackDesc = CastText(ResolveTransactions(DQToken(args[2]).text, r)),
              !.cashbackAmount = CastInteger(ResolveTransactions(DQToken(args[3]).text, r)),
              !.settledAt = CastText(ResolveTransactions(DQToken(args[4]).text, r)),
              !.category = CastText(ResolveTransactions(DQToken(args[5]).text, r)),
              !.parentCategory = CastText(ResolveTransactions(DQToken(args[6]).text, r))]

\* An UPDATE Transactions without its WHERE clause: what C4 must not survive.
TransactionIdMatchesAny(r, idArg) == TRUE

TransactionIdMatches(r, idArg) ==
    ResolveTransactions(DQToken(idArg).text, r) = TextVal(r.id)

ExecUpdateTransaction(q, d) ==
    IF ~Exists(d.tables.Transactions) \/ ~AllTokensOk(q.args, 1..7)
    THEN Raised("OperationalError", d, FALSE)
    ELSE Returned([d EXCEPT !.txns =
            [k \in 1..Len(d.txns) |->
                IF TransactionIdMatches(d.txns[k], q.args[7])
                THEN UpdateTransactionRow(d.txns[k], q.args)
                ELSE d.txns[k]]])

\* cur.execute(query)
Execute(q, d) ==
    CASE q.kind = "UPDATE_ACCOUNT" -> ExecUpdateAccount(q, d)
      [] q.kind = "INSERT_ACCOUNT" -> ExecInsertAccount(q, d)
      [] q.kind = "DELETE_ACCOUNT" -> ExecDeleteAccount(q, d)
      [] q.kind = "UPDATE_TRANSACTION" -> ExecUpdateTransaction(q, d)

\* An append that first looks the id up and overwrites the stored row (INSERT
\* OR REPLACE): what C14 must not survive.
InsertOrReplaceTransactionRow(row, d) ==
    IF \E k \in 1..Len(d.txns) : d.txns[k].id = row.id
    THEN Returned([d EXCEPT !.txns =
            [k \in 1..Len(d.txns) |-> IF d.txns[k].id = row.id THEN row ELSE d.txns[k]]])
    ELSE Returned([d EXCEPT !.txns = Append(@, row)])

\* One row of DataFrame.to_sql's executemany: the values are bound as
\* parameters, so the row is stored as it is; a declared primary key rejects a
\* stored id.
InsertTransactionRow(row, d) ==
    IF HasPrimaryKey(d.tables.Transactions) /\ \E k \in 1..Len(d.txns) : d.txns[k].id = row.id
    THEN Raised("IntegrityError", d, TRUE)
    ELSE Returned([d EXCEPT !.txns = Append(@, row)])


\* ------------------------------------------------------------------ inputs

\* Rows of the accounts DataFrame the caller hands to upsert_accounts.
AccountRow(id, displayName, balance) ==
    [id |-> id, displayName |-> displayName, accountType |-> <<"S","A","V","E","R">>,
     ownershipType |-> <<"J","O","I","N","T">>, balance |-> balance,
     created |-> <<"2","0","2","0">>]

RowAUp == AccountRow(<<"A">>, <<"U","p">>, 10)

\* a display name that is also a column name of Accounts
RowABalance == AccountRow(<<"A">>, <<"B","a","l","a","n","c","e">>, 15)

RowBHome == AccountRow(<<"B">>, <<"H","o","m","e">>, 20)

\* a display name holding two double quotes in a row
RowBEscaped == AccountRow(<<"B">>, <<"a","\"","\"","b">>, 5)

\* a display name holding one double quote
RowBBroken == AccountRow(<<"B">>, <<"a","\"","b">>, 5)

AccountRows == {RowAUp, RowABalance, RowBEscaped, RowBBroken}

\* Rows of the transactions DataFrame handed to upsert_transactions.
TransactionRow(id, status, held, settledAt, category) ==
    [id |-> id, status |-> status, rawText |-> <<"r","a","w">>,
     description |-> <<"s","h","o","p">>, message |-> <<"h","i">>,
     isCategorizable |-> 1, held |-> held, heldAmount |-> 7,
     roundUpAmount |-> 0, boostProportion |-> 0,
     cashbackDesc |-> <<"p","r","o","m","o">>, cashbackAmount |-> 3, amount |-> 7,
     foreignCurrency |-> <<"U","S","D">>, foreignAmount |-> 5,
     cardPurchaseMethod |-> <<"C","A","R","D">>, cardNumberSuffix |-> <<"0","0","4","2">>,
     settledAt |-> settledAt, createdAt |-> <<"2","0","2","0">>,
     account |-> <<"A">>, transferAccount |-> <<"B">>,
     category |-> category, parentCategory |-> <<"h","o","m","e">>]

\* transaction t, settled: what the stored, held t becomes
RowTSettled ==
    TransactionRow(<<"t">>, <<"S","E","T","T","L","E","D">>, 0, <<"2","0","2","1">>, <<"p","u","b","s">>)

\* transaction t, held; the status HELD is also the name of the column held
RowTHeld ==
    TransactionRow(<<"t">>, <<"H","E","L","D">>, 1, <<"N","o","n","e">>, <<"r","e","n","t">>)

RowUHeld ==
    TransactionRow(<<"u">>, <<"H","E","L","D">>, 1, <<"N","o","n","e">>, <<"r","e","n","t">>)

TransactionRows == {RowTSettled, RowUHeld}

RECURSIVE SeqsUpTo(_, _)
SeqsUpTo(S, n) ==
    IF n = 0 THEN {<< >>}
    ELSE SeqsUpTo(S, n - 1) \cup
         { Append(s, x) : s \in { q \in SeqsUpTo(S, n - 1) : Len(q) = n - 1 }, x \in S }

AccountFrames == SeqsUpTo(AccountRows, MaxRows)

TransactionFrames == SeqsUpTo(TransactionRows, MaxRows)

\* The ids a caller filters Accounts on.
AccountIds == { r.id : r \in AccountRows }

\* A finance.db left by an earlier run: db_init, then account A and
\* transaction t stored.
StoredDb ==
    [tables |-> [Accounts |-> AccountsSchema, Transactions |-> TransactionsSchema],
     accounts |-> { [id |-> <<"A">>, displayName |-> <<"U","p">>,
                     accountType |-> <<"S","A","V","E","R">>, ownershipType |-> <<"J","O","I","N","T">>,
                     balance |-> 10, created |-> <<"2","0","2","0">>, deleted |-> 0] },
     txns |-> <<RowTHeld>>]

\* ------------------------------------------------------------------- state

VARIABLES
    db,       \* what DB_CONN sees: the tables and their rows, uncommitted changes included
    disk,     \* what is committed to finance.db
    inTxn,    \* DB_CONN.in_transaction
    lock,     \* WRITE: 0 when free, else the thread holding it
    thread,   \* per thread: the call it runs and where it is in it
    calls,    \* calls started so far
    hist,     \* per thread, about its current or last call: the database when it
              \* started, whether no other thread executed a statement meanwhile,
              \* the write a read ran beside, and whether the call repeats the
              \* thread's call before, which returned
    wpre,     \* the connection's view when the lock was last acquired
    fresh     \* the DataFrame rows inserted into Accounts that no later statement
              \* on Accounts has touched

vars == <<db, disk, inTxn, lock, thread, calls, hist, wpre, fresh>>

IdleThread ==
    [pc |-> "idle", op |-> "none", data |-> << >>, new |-> FALSE, i |-> 0,
     row |-> << >>, existing_accnts |-> {}, query |-> NoQuery,
     outcome |-> "none", result |-> {}]

NoHist ==
    [pre |-> FreshDb, alone |-> TRUE, holder |-> 0, inflight |-> NoQuery,
     wpre |-> FreshDb, fresh |-> {}, again |-> FALSE]

Init ==
    /\ db \in {FreshDb, StoredDb}
    /\ disk = db
    /\ inTxn = FALSE
    /\ lock = 0
    /\ thread = [t \in Threads |-> IdleThread]
    /\ calls = 0
    /\ hist = [t \in Threads |-> NoHist]
    /\ wpre = db
    /\ fresh = {}

\* A caller may start a call on a thread that runs none.
MayCall(t) == thread[t].pc = "idle" /\ calls < MaxCalls

\* The call thread t starts is recorded; every other running call is no longer alone
\* once t executes a statement.
Started(t) == [hist EXCEPT ![t] = [NoHist EXCEPT !.pre = db]]

Disturbed(t) ==
    [u \in Threads |->
        IF u # t /\ thread[u].pc # "idle" THEN [hist[u] EXCEPT !.alone = FALSE]
        ELSE hist[u]]

\* A lock that never blocks: what C3 must not survive.
LockAlwaysFree == TRUE

\* `with WRITE:` blocks until the lock is free.
LockFree == lock = 0

\* The call of thread t ends: it returns (ok) or raises (error).
Ended(th, outcome) == [th EXCEPT !.pc = "idle", !.outcome = outcome, !.query = NoQuery]

\* ----------------------------------------------------------------- db_init

CallDbInit(t) ==
    /\ MayCall(t)
    /\ thread' = [thread EXCEPT ![t] =
                    [IdleThread EXCEPT !.pc = "db_init:lock", !.op = "db_init"]]
    /\ calls' = calls + 1
    /\ hist' = Started(t)
    /\ UNCHANGED <<db, disk, inTxn, lock, wpre, fresh>>

\* with WRITE: (db_init, write_to_db, execute_query)
Acquire(t) ==
    /\ thread[t].pc \in {"db_init:lock", "write_to_db:lock", "execute_query:lock"}
    /\ LockFree
    /\ lock' = t
    /\ wpre' = db
    /\ thread' = [thread EXCEPT ![t].pc =
                    CASE thread[t].pc = "db_init:lock" -> "db_init:accounts"
                      [] thread[t].pc = "write_to_db:lock" -> "to_sql:create"
                      [] thread[t].pc = "execute_query:lock" -> "execute_query:execute"]
    /\ UNCHANGED <<db, disk, inTxn, calls, hist, fresh>>

\* A CREATE TABLE is no DML statement: the sqlite3 module opens no transaction
\* for it, so outside a transaction it is committed as it runs.
Committed(d) == IF inTxn THEN disk ELSE [disk EXCEPT !.tables = d.tables]

DbInitAccounts(t) ==
    /\ thread[t].pc = "db_init:accounts"
    /\ db' = CreateTableIfNotExists(db, "Accounts", AccountsSchema)
    /\ disk' = Committed(db')
    /\ thread' = [thread EXCEPT ![t].pc = "db_init:transactions"]
    /\ hist' = Disturbed(t)
    /\ UNCHANGED <<inTxn, lock, calls, wpre, fresh>>

DbInitTransactions(t) ==
    /\ thread[t].pc = "db_init:transactions"
    /\ db' = CreateTableIfNotExists(db, "Transactions", TransactionsSchema)
    /\ disk' = Committed(db')
    /\ thread' = [thread EXCEPT ![t].pc = "db_init:commit"]
    /\ hist' = Disturbed(t)
    /\ UNCHANGED <<inTxn, lock, calls, wpre, fresh>>

\* DB_CONN.commit(); cur.close(); the with block ends
DbInitCommit(t) ==
    /\ thread[t].pc = "db_init:commit"
    /\ disk' = db
    /\ inTxn' = FALSE
    /\ lock' = 0
    /\ thread' = [thread EXCEPT ![t] = Ended(@, "ok")]
    /\ UNCHANGED <<db, calls, hist, wpre, fresh>>


\* ----------------------------------------------------------- read_database

\* pd.read_sql_query('SELECT id FROM Accounts', DB_CONN)
StoredAccountIds(d) == { r.id : r \in d.accounts }

\* pd.read_sql_query('SELECT * FROM Accounts WHERE id = ?', DB_CONN, params=[id]):
\* the parameter is bound, not interpolated.
SelectAccount(d, id) == { r \in d.accounts : r.id = id }

\* read_database takes no lock: it reads what the connection sees.
CallReadDatabase(t, id) ==
    /\ MayCall(t)
    /\ thread' = [thread EXCEPT ![t] =
                    [IdleThread EXCEPT
                        !.op = "read_database",
                        !.row = [id |-> id],
                        !.outcome = IF Exists(db.tables.Accounts) THEN "ok" ELSE "error",
                        !.result = IF Exists(db.tables.Accounts)
                                   THEN SelectAccount(db, id) ELSE {}]]
    /\ calls' = calls + 1
    /\ hist' = [hist EXCEPT ![t] =
                    [NoHist EXCEPT
                        !.pre = db,
                        !.holder = lock,
                        !.inflight = IF lock = 0 THEN NoQuery ELSE thread[lock].query,
                        !.wpre = wpre,
                        !.fresh = fresh]]
    /\ UNCHANGED <<db, disk, inTxn, lock, wpre, fresh>>

\* ----------------------------------------------------------- execute_query

\* The loop of upsert_accounts at row i, then its loop over the accounts left
\* in existing_accnts (in the order the SELECT gave them, which SQL leaves
\* open), then its return: the thread's next positions.
AccountsLoop(th) ==
    IF th.i <= Len(th.data)
    THEN { [th EXCEPT
              !.pc = "execute_query:lock",
              !.row = th.data[th.i],
              !.query = IF th.data[th.i].id \in th.existing_accnts
                        THEN UpdateAccountQuery(th.data[th.i])
                        ELSE InsertAccountQuery(th.data[th.i])] }
    ELSE IF th.existing_accnts # {}
         THEN { [th EXCEPT !.pc = "execute_query:lock",
                           !.row = [id |-> id],
                           !.query = DeleteAccountQuery(id)]
                : id \in th.existing_accnts }
         ELSE { Ended(th, "ok") }

\* The loop of upsert_transactions(data, new=False) at row i, then its return.
TransactionsLoop(th) ==
    IF th.i <= Len(th.data)
    THEN { [th EXCEPT !.pc = "execute_query:lock",
                      !.row = th.data[th.i],
                      !.query = UpdateTransactionQuery(th.data[th.i])] }
    ELSE { Ended(th, "ok") }

\* A caller that leaves an updated id in existing_accnts: what C10 must not
\* survive.
AfterQueryKeepsId(th) ==
    CASE th.query.kind = "UPDATE_ACCOUNT" ->
            AccountsLoop([th EXCEPT !.i = @ + 1])
      [] th.query.kind = "INSERT_ACCOUNT" ->
            AccountsLoop([th EXCEPT !.i = @ + 1])
      [] th.query.kind = "DELETE_ACCOUNT" ->
            AccountsLoop([th EXCEPT !.existing_accnts = @ \ {th.row.id}])
      [] th.query.kind = "UPDATE_TRANSACTION" ->
            TransactionsLoop([th EXCEPT !.i = @ + 1])

\* What the caller does when execute_query returns.
AfterQuery(th) ==
    CASE th.query.kind = "UPDATE_ACCOUNT" ->
            AccountsLoop([th EXCEPT !.existing_accnts = @ \ {th.row.id}, !.i = @ + 1])
      [] th.query.kind = "INSERT_ACCOUNT" ->
            AccountsLoop([th EXCEPT !.i = @ + 1])
      [] th.query.kind = "DELETE_ACCOUNT" ->
            AccountsLoop([th EXCEPT !.existing_accnts = @ \ {th.row.id}])
      [] th.query.kind = "UPDATE_TRANSACTION" ->
            TransactionsLoop([th EXCEPT !.i = @ + 1])

\* A caller that catches the error of a statement and goes on with the next
\* row: what C6 must not survive.
AfterErrorGoesOn(th) ==
    IF th.query.kind = "NONE" THEN Ended(th, "error")
    ELSE CHOOSE nxt \in AfterQuery(th) : TRUE

\* What the caller does when execute_query raises: nothing catches it.
AfterError(th) == Ended(th, "error")

\* An execute_query that takes the lock with acquire() and has no try/finally:
\* an error leaves it held.  What C16 must not survive.
ExecuteQueryHoldsOnError(t) ==
    /\ thread[t].pc = "execute_query:execute"
    /\ LET res == Execute(thread[t].query, db) IN
        /\ db' = res.db
        /\ inTxn' = (inTxn \/ res.began)
        /\ IF res.error = "none"
           THEN /\ thread' = [thread EXCEPT ![t].pc = "execute_query:commit"]
                /\ lock' = lock
           ELSE /\ thread' = [thread EXCEPT ![t] = AfterError(@)]
                /\ lock' = lock
        /\ fresh' = IF res.error # "none" THEN fresh
                     ELSE CASE thread[t].query.kind = "INSERT_ACCOUNT" -> fresh \cup {thread[t].row}
                            [] thread[t].query.kind \in {"UPDATE_ACCOUNT", "DELETE_ACCOUNT"} -> {}
                            [] OTHER -> fresh
    /\ hist' = Disturbed(t)
    /\ UNCHANGED <<disk, calls, wpre>>

\* cur.execute(query) under the lock; when it raises, the with block releases
\* the lock and the error leaves execute_query and its caller.
ExecuteQuery(t) ==
    /\ thread[t].pc = "execute_query:execute"
    /\ LET res == Execute(thread[t].query, db) IN
        /\ db' = res.db
        /\ inTxn' = (inTxn \/ res.began)
        /\ IF res.error = "none"
           THEN /\ thread' = [thread EXCEPT ![t].pc = "execute_query:commit"]
                /\ lock' = lock
           ELSE /\ thread' = [thread EXCEPT ![t] = AfterError(@)]
                /\ lock' = 0
        /\ fresh' = IF res.error # "none" THEN fresh
                     ELSE CASE thread[t].query.kind = "INSERT_ACCOUNT" -> fresh \cup {thread[t].row}
                            [] thread[t].query.kind \in {"UPDATE_ACCOUNT", "DELETE_ACCOUNT"} -> {}
                            [] OTHER -> fresh
    /\ hist' = Disturbed(t)
    /\ UNCHANGED <<disk, calls, wpre>>

\* An execute_query that leaves the commit to the end of the whole call, as one
\* transaction around the reconciliation would: what C13 must not survive.
CommitQueryDefers(t) ==
    /\ thread[t].pc = "execute_query:commit"
    /\ lock' = 0
    /\ \E th \in AfterQuery(thread[t]) : thread' = [thread EXCEPT ![t] = th]
    /\ UNCHANGED <<db, disk, inTxn, calls, hist, wpre, fresh>>

\* An upsert that keeps the lock for its next statement, whose execute_query
\* asks for it again: what C17 must not survive.
CommitQueryKeepsLock(t) ==
    /\ thread[t].pc = "execute_query:commit"
    /\ disk' = db
    /\ inTxn' = FALSE
    /\ \E th \in AfterQuery(thread[t]) : thread' = [thread EXCEPT ![t] = th]
    /\ UNCHANGED <<db, lock, calls, hist, wpre, fresh>>

\* DB_CONN.commit(); cur.close(); the with block ends and the caller goes on
CommitQuery(t) ==
    /\ thread[t].pc = "execute_query:commit"
    /\ disk' = db
    /\ inTxn' = FALSE
    /\ lock' = 0
    /\ \E th \in AfterQuery(thread[t]) : thread' = [thread EXCEPT ![t] = th]
    /\ UNCHANGED <<db, calls, hist, wpre, fresh>>

\* ---------------------------------------------------------- upsert_accounts

\* existing_accnts = read_database('SELECT id FROM Accounts'), then the loop.
CallUpsertAccounts(t, data) ==
    /\ MayCall(t)
    /\ LET th == [IdleThread EXCEPT !.op = "upsert_accounts", !.data = data, !.i = 1] IN
        IF Exists(db.tables.Accounts)
        THEN \E nxt \in AccountsLoop([th EXCEPT !.existing_accnts = StoredAccountIds(db)]) :
                thread' = [thread EXCEPT ![t] = nxt]
        ELSE thread' = [thread EXCEPT ![t] = AfterError(th)]
    /\ calls' = calls + 1
    /\ hist' = [Started(t) EXCEPT ![t].again =
                    /\ thread[t].op = "upsert_accounts"
                    /\ thread[t].outcome = "ok"
                    /\ thread[t].data = data]
    /\ UNCHANGED <<db, disk, inTxn, lock, wpre, fresh>>

\* ------------------------------------------------------ upsert_transactions

CallUpsertTransactions(t, data, new) ==
    /\ MayCall(t)
    /\ LET th == [IdleThread EXCEPT !.op = "upsert_transactions", !.data = data,
                                    !.new = new, !.i = 1] IN
        IF new
        THEN thread' = [thread EXCEPT ![t] = [th EXCEPT !.pc = "write_to_db:lock"]]
        ELSE \E nxt \in TransactionsLoop(th) : thread' = [thread EXCEPT ![t] = nxt]
    /\ calls' = calls + 1
    /\ hist' = Started(t)
    /\ UNCHANGED <<db, disk, inTxn, lock, wpre, fresh>>

\* ------------------------------------------------------------- write_to_db

\* data.to_sql(table, DB_CONN, if_exists='append') creates a missing table first.
ToSqlCreate(t) ==
    /\ thread[t].pc = "to_sql:create"
    /\ db' = CreateTableIfNotExists(db, "Transactions", InferredTransactionsSchema)
    /\ disk' = Committed(db')
    /\ thread' = [thread EXCEPT ![t].pc = "to_sql:insert"]
    /\ hist' = Disturbed(t)
    /\ UNCHANGED <<inTxn, lock, calls, wpre, fresh>>

\* What to_sql does when a row's insert raises: it rolls the connection back,
\* and the error leaves write_to_db through the with block.
RolledBack(d, committed) == committed

\* One row of to_sql's executemany.
ToSqlInsert(t) ==
    /\ thread[t].pc = "to_sql:insert"
    /\ thread[t].i <= Len(thread[t].data)
    /\ LET res == InsertTransactionRow(thread[t].data[thread[t].i], db) IN
        IF res.error = "none"
        THEN /\ db' = res.db
             /\ inTxn' = TRUE
             /\ thread' = [thread EXCEPT ![t].i = @ + 1]
             /\ lock' = lock
        ELSE /\ db' = RolledBack(db, disk)
             /\ inTxn' = FALSE
             /\ thread' = [thread EXCEPT ![t] = AfterError(@)]
             /\ lock' = 0
    /\ hist' = Disturbed(t)
    /\ UNCHANGED <<disk, calls, wpre, fresh>>

\* to_sql commits after the last row; the with block ends.
ToSqlCommit(t) ==
    /\ thread[t].pc = "to_sql:insert"
    /\ thread[t].i > Len(thread[t].data)
    /\ disk' = db
    /\ inTxn' = FALSE
    /\ lock' = 0
    /\ thread' = [thread EXCEPT ![t] = Ended(@, "ok")]
    /\ UNCHANGED <<db, calls, hist, wpre, fresh>>

\* ------------------------------------------------------------ specification

Step(t, accountFrames, transactionFrames) ==
    \/ CallDbInit(t)
    \/ \E id \in AccountIds : CallReadDatabase(t, id)
    \/ \E data \in accountFrames : CallUpsertAccounts(t, data)
    \/ \E data \in transactionFrames, new \in BOOLEAN : CallUpsertTransactions(t, data, new)
    \/ Acquire(t)
    \/ DbInitAccounts(t)
    \/ DbInitTransactions(t)
    \/ DbInitCommit(t)
    \/ ExecuteQuery(t)
    \/ CommitQuery(t)
    \/ ToSqlCreate(t)
    \/ ToSqlInsert(t)
    \/ ToSqlCommit(t)

\* One thread only: calls run one after the other, on every frame of at most
\* MaxRows rows.
NextSeq == Step(1, AccountFrames, TransactionFrames)

SpecSeq == Init /\ [][NextSeq]_vars

\* Calls from two threads at once, on the frames that make them meet: an
\* update and an insert, an insert both threads attempt, a statement that
\* raises, a soft delete; a batch of two transactions and a single one.
ConcurrentAccountFrames ==
    {<< >>, <<RowBHome>>, <<RowABalance, RowBHome>>, <<RowBBroken>>}

ConcurrentTransactionFrames == {<<RowTSettled>>, <<RowUHeld, RowTHeld>>}

Next == \E t \in Threads : Step(t, ConcurrentAccountFrames, ConcurrentTransactionFrames)

Spec == Init /\ [][Next]_vars

\* The steps of a call of thread t once it is started.
Run(t) ==
    \/ Acquire(t)
    \/ DbInitAccounts(t)
    \/ DbInitTransactions(t)
    \/ DbInitCommit(t)
    \/ ExecuteQuery(t)
    \/ CommitQuery(t)
    \/ ToSqlCreate(t)
    \/ ToSqlInsert(t)
    \/ ToSqlCommit(t)

\* Thread t can take a step of its call: it runs one, and is not waiting for a
\* lock that is held.  (ENABLED <<Run(t)>>_vars, as a state predicate.)
Runnable(t) ==
    /\ thread[t].pc # "idle"
    /\ thread[t].pc \in {"db_init:lock", "write_to_db:lock", "execute_query:lock"} => LockFree

\* A started call keeps running: no step of the code blocks but `with WRITE`,
\* and a thread that waits for a lock that stays free gets it.  This is
\* WF_vars(Run(t)) written out; weak fairness is less than a fair lock gives,
\* so what holds under it holds under a fair lock.
FairSpec ==
    Spec /\ \A t \in Threads : ([]<>~Runnable(t)) \/ ([]<><<Run(t)>>_vars)


\* ------------------------------------------------------------------ claims

\* The call thread t made last has ended: it returned, or it raised.
Returned_ok(t, op) ==
    thread[t].op = op /\ thread[t].pc = "idle" /\ thread[t].outcome = "ok"

FrameIds(data) == { data[k].id : k \in 1..Len(data) }

\* C1: after upsert_accounts(snapshot) has run to completion with no other
\* writer, every id stored beforehand and in the snapshot has the snapshot's
\* displayName and balance; every id stored beforehand and absent from the
\* snapshot has deleted = 1 and balance = 0; every snapshot id not stored
\* beforehand is a row with the snapshot's six values and deleted = 0.
C1_UpsertAccountsPostcondition ==
    \A t \in Threads :
        (Returned_ok(t, "upsert_accounts") /\ hist[t].alone) =>
            LET before == StoredAccountIds(hist[t].pre)
                snapshot == thread[t].data
            IN  /\ \A k \in 1..Len(snapshot) :
                     snapshot[k].id \in before =>
                        \E r \in db.accounts :
                            /\ r.id = snapshot[k].id
                            /\ r.displayName = snapshot[k].displayName
                            /\ r.balance = snapshot[k].balance
                /\ \A id \in before \ FrameIds(snapshot) :
                        \E r \in db.accounts :
                            r.id = id /\ r.deleted = 1 /\ r.balance = 0
                /\ \A k \in 1..Len(snapshot) :
                     snapshot[k].id \notin before =>
                        [id |-> snapshot[k].id,
                         displayName |-> snapshot[k].displayName,
                         accountType |-> snapshot[k].accountType,
                         ownershipType |-> snapshot[k].ownershipType,
                         balance |-> snapshot[k].balance,
                         created |-> snapshot[k].created,
                         deleted |-> 0] \in db.accounts

\* C2: between calls, every account row whose deleted flag is set has
\* balance = 0.
C2_DeletedHasZeroBalance ==
    (\A t \in Threads : thread[t].pc = "idle") =>
        \A r \in db.accounts : r.deleted = 1 => r.balance = 0

\* Thread t is inside the statement-and-commit section of a mutating call.
InWrite(t) ==
    thread[t].pc \in {"db_init:accounts", "db_init:transactions", "db_init:commit",
                      "to_sql:create", "to_sql:insert",
                      "execute_query:execute", "execute_query:commit"}

\* C3: the statement-and-commit sections of two mutating calls never overlap:
\* at most one thread is inside a write, it holds the lock, and whenever the
\* lock is free the write before has committed all it changed.
C3_WritesNeverOverlap ==
    /\ Cardinality({t \in Threads : InWrite(t)}) <= 1
    /\ \A t \in Threads : InWrite(t) => lock = t
    /\ lock = 0 => db = disk

\* C3's case: one thread is inside a write that has changed the connection's
\* view while another waits for the lock.
C3_Witness ==
    \E t, u \in Threads :
        /\ t # u
        /\ InWrite(t)
        /\ db # disk
        /\ thread[u].pc \in {"db_init:lock", "write_to_db:lock", "execute_query:lock"}


\* The call thread t made last is upsert_transactions(data, new=False), running or ended.
UpdatesTransactions(t) == thread[t].op = "upsert_transactions" /\ ~thread[t].new

\* Transactions rows a and b differ at most in the six fields the UPDATE sets.
SameButMutable(a, b) ==
    [a EXCEPT !.status = b.status, !.cashbackDesc = b.cashbackDesc,
              !.cashbackAmount = b.cashbackAmount, !.settledAt = b.settledAt,
              !.category = b.category, !.parentCategory = b.parentCategory] = b

StoredTransactionIds(d) == { d.txns[k].id : k \in 1..Len(d.txns) }

\* C5: no step removes a committed row: the ids committed to Accounts and to
\* Transactions only grow.
C5_RowsNeverRemoved ==
    [][ /\ StoredAccountIds(disk) \subseteq StoredAccountIds(disk')
        /\ StoredTransactionIds(disk) \subseteq StoredTransactionIds(disk') ]_vars

\* C5's case: an account has been soft-deleted, and its row is still stored.
C5_Witness ==
    \E t \in Threads :
        /\ Returned_ok(t, "upsert_accounts")
        /\ \E r \in disk.accounts :
                r.deleted = 1 /\ r.id \notin FrameIds(thread[t].data)

\* The k-th statement of upsert_accounts(data) on a table that held `pre` when
\* the call read it, run alone: an update for an id stored then and not seen
\* in an earlier row, an insert otherwise.
AccountStatement(pre, data, k) ==
    IF /\ data[k].id \in StoredAccountIds(pre)
       /\ \A j \in 1..(k - 1) : data[j].id # data[k].id
    THEN UpdateAccountQuery(data[k])
    ELSE InsertAccountQuery(data[k])

\* The database after the first n per-row statements of thread t's call.
RECURSIVE AfterStatements(_, _)
AfterStatements(t, n) ==
    IF n = 0 THEN hist[t].pre
    ELSE Execute(IF thread[t].op = "upsert_accounts"
                 THEN AccountStatement(hist[t].pre, thread[t].data, n)
                 ELSE UpdateTransactionQuery(thread[t].data[n]),
                 AfterStatements(t, n - 1)).db

\* Thread t is about to execute the i-th per-row statement of a loop-based upsert.
AtRowStatement(t) ==
    /\ thread[t].pc = "execute_query:execute"
    /\ thread[t].query.kind \in {"UPDATE_ACCOUNT", "INSERT_ACCOUNT", "UPDATE_TRANSACTION"}

\* C6: when the k-th per-row statement of a loop-based upsert raises, the call
\* ends with the error, and what is committed is what the first k-1 statements
\* made of the table; nothing uncommitted is left.
C6_FailureKeepsEarlierRows ==
    [][ \A t \in Threads :
            (AtRowStatement(t) /\ Execute(thread[t].query, db).error # "none") =>
                /\ thread'[t].pc = "idle"
                /\ thread'[t].outcome = "error"
                /\ disk' = AfterStatements(t, thread[t].i - 1)
                /\ db' = disk' ]_vars

\* C6's case: the second statement of upsert_accounts raised, and the change
\* of the first is committed.
C6_Witness ==
    \E t \in Threads :
        /\ thread[t].op = "upsert_accounts"
        /\ thread[t].pc = "idle"
        /\ thread[t].outcome = "error"
        /\ thread[t].i = 2
        /\ disk.accounts # hist[t].pre.accounts


\* The call thread t made last is a read_database that ran while another
\* thread held the write lock.
ReadBesideWrite(t) ==
    /\ thread[t].op = "read_database"
    /\ thread[t].outcome = "ok"
    /\ hist[t].holder # 0

\* The complete value of Accounts row p once the statement q in flight is done.
PostWriteRow(q, p) ==
    CASE q.kind = "UPDATE_ACCOUNT" /\ DQToken(q.args[3]).text = p.id ->
            [p EXCEPT !.displayName =
                        CastText(ResolveAccounts(DQToken(q.args[1]).text, p)),
                      !.balance = TextToInt(q.args[2])]
      [] q.kind = "DELETE_ACCOUNT" /\ DQToken(q.args[1]).text = p.id ->
            [p EXCEPT !.deleted = 1, !.balance = 0]
      [] OTHER -> p

\* C7: every row a read_database returns while a write is in flight is the
\* row as it was when the writer took the lock, or the row as the writer's
\* statement leaves it: no row mixes the two.
C7_ReadSeesWholeRows ==
    \A t \in Threads :
        ReadBesideWrite(t) =>
            LET q == hist[t].inflight
                before == hist[t].wpre.accounts
            IN  \A r \in thread[t].result :
                    IF \E p \in before : p.id = r.id
                    THEN LET p == CHOOSE p \in before : p.id = r.id
                         IN  r = p \/ r = PostWriteRow(q, p)
                    ELSE /\ q.kind = "INSERT_ACCOUNT"
                         /\ r = [id |-> DQToken(q.args[1]).text,
                                 displayName |-> DQToken(q.args[2]).text,
                                 accountType |-> DQToken(q.args[3]).text,
                                 ownershipType |-> DQToken(q.args[4]).text,
                                 balance |-> TextToInt(q.args[5]),
                                 created |-> DQToken(q.args[6]).text,
                                 deleted |-> 0]

\* C7's case: a read ran while an UPDATE of Accounts was in flight and returned
\* the row as the statement left it, before the commit.
C7_Witness ==
    \E t \in Threads :
        /\ ReadBesideWrite(t)
        /\ hist[t].inflight.kind = "UPDATE_ACCOUNT"
        /\ \E r \in thread[t].result : r \notin hist[t].wpre.accounts
        /\ \E r \in thread[t].result : r \notin disk.accounts

\* C8: a db_init call that has ended has raised nothing, has left every stored
\* row and every table that existed as it was, and has made both tables exist;
\* on a database that had both tables (as after a first db_init) it has
\* changed nothing at all.
C8_DbInitIdempotent ==
    \A t \in Threads :
        (thread[t].op = "db_init" /\ thread[t].pc = "idle") =>
            LET pre == hist[t].pre IN
            /\ thread[t].outcome = "ok"
            /\ db.accounts = pre.accounts
            /\ db.txns = pre.txns
            /\ \A table \in {"Accounts", "Transactions"} :
                    /\ Exists(db.tables[table])
                    /\ Exists(pre.tables[table]) => db.tables[table] = pre.tables[table]
            /\ Columns("Accounts", db.tables.Accounts) = AccountsColumnSet
            /\ Columns("Transactions", db.tables.Transactions) = TransactionsColumnSet
            /\ disk = db
            /\ (Exists(pre.tables.Accounts) /\ Exists(pre.tables.Transactions)) => db = pre

\* C8's case: db_init has run on a database that had both tables and rows in them.
C8_Witness ==
    \E t \in Threads :
        /\ thread[t].op = "db_init"
        /\ thread[t].pc = "idle"
        /\ Exists(hist[t].pre.tables.Accounts)
        /\ Exists(hist[t].pre.tables.Transactions)
        /\ hist[t].pre.accounts # {}
        /\ hist[t].pre.txns # << >>

\* C9: an account inserted through upsert_accounts and read back with a query
\* filtered on its id comes back as exactly one record with the inserted id,
\* displayName, accountType, ownershipType, balance and created, and deleted = 0.
C9_InsertThenReadRoundTrip ==
    \A t \in Threads :
        (thread[t].op = "read_database" /\ thread[t].outcome = "ok") =>
            \A x \in hist[t].fresh :
                x.id = thread[t].row.id =>
                    thread[t].result =
                        { [id |-> x.id, displayName |-> x.displayName,
                           accountType |-> x.accountType,
                           ownershipType |-> x.ownershipType,
                           balance |-> x.balance, created |-> x.created,
                           deleted |-> 0] }

\* Thread t holds the lock and is about to execute the statement of row i of
\* upsert_accounts' first loop.
AtAccountRow(t) ==
    /\ thread[t].op = "upsert_accounts"
    /\ thread[t].pc = "execute_query:execute"
    /\ thread[t].query.kind \in {"UPDATE_ACCOUNT", "INSERT_ACCOUNT"}

AtStatement(t, kind) ==
    thread[t].pc = "execute_query:execute" /\ thread[t].query.kind = kind

BetweenStatements(t) ==
    thread[t].op = "upsert_accounts" /\ thread[t].pc = "execute_query:lock"

\* C13: upsert_accounts holds the write lock for one statement at a time:
\* between two of its statements it does not hold the lock, nothing is left
\* uncommitted once the lock is free, and, when no other thread has executed a
\* statement since the call started, the database is the one the call found
\* with exactly the first i-1 per-row statements applied.
C13_LockReleasedBetweenStatements ==
    \A t \in Threads :
        BetweenStatements(t) =>
            /\ lock # t
            /\ lock = 0 => db = disk
            /\ (hist[t].alone /\ thread[t].query.kind # "DELETE_ACCOUNT") =>
                    db = AfterStatements(t, thread[t].i - 1)

\* C13's case: thread t has committed the first statement of a two-row
\* reconciliation and not yet run the second; a call of thread u started on
\* that half-reconciled table, wrote to the database and returned.
C13_Witness ==
    \E t, u \in Threads :
        /\ t # u
        /\ BetweenStatements(t)
        /\ thread[t].i = 2
        /\ thread[t].query.kind # "DELETE_ACCOUNT"
        /\ thread[u].op \in {"upsert_accounts", "upsert_transactions"}
        /\ thread[u].pc = "idle"
        /\ thread[u].outcome = "ok"
        /\ hist[u].pre = AfterStatements(t, 1)
        /\ hist[u].pre # hist[t].pre
        /\ disk # hist[u].pre
        /\ lock = 0

\* Thread t runs upsert_transactions(data, new=True) and is inside to_sql.
InBatch(t) ==
    /\ thread[t].op = "upsert_transactions"
    /\ thread[t].new
    /\ thread[t].pc \in {"to_sql:create", "to_sql:insert"}

\* C14: upsert_transactions(data, new=True) holds the write lock from before
\* its first row to after its last: while i-1 rows are inserted, the thread
\* holds the lock, the connection sees the rows stored when it took the lock,
\* unchanged, followed by the first i-1 rows of data, and nothing of the batch
\* or of any other thread is committed; when the call returns, what is
\* committed is the rows stored before followed by all of data; when it
\* raises, nothing of the batch is stored.
C14_BatchAppendsUnderOneLock ==
    /\ [](\A t \in Threads :
            InBatch(t) =>
                /\ lock = t
                /\ db.txns = wpre.txns \o SubSeq(thread[t].data, 1, thread[t].i - 1)
                /\ db.accounts = wpre.accounts
                /\ disk.txns = wpre.txns
                /\ disk.accounts = wpre.accounts)
    /\ [][ \A t \in Threads :
              (InBatch(t) /\ thread'[t].pc = "idle") =>
                    IF thread'[t].outcome = "ok"
                    THEN /\ disk'.txns = wpre.txns \o thread[t].data
                         /\ db' = disk'
                         /\ lock' = 0
                    ELSE /\ disk' = disk
                         /\ db'.txns = wpre.txns
                         /\ lock' = 0 ]_vars

\* C14's case: the first row of a batch of two is inserted and the second is
\* not, while another thread waits for the lock to write.
C14_Witness ==
    \E t, u \in Threads :
        /\ t # u
        /\ InBatch(t)
        /\ Len(thread[t].data) = 2
        /\ thread[t].i = 2
        /\ thread[u].pc \in {"write_to_db:lock", "execute_query:lock"}

\* The outcome of the first n per-row statements of upsert_accounts(data) run
\* alone on a database that holds `pre`: the first error stops the call.
RECURSIVE SerialRows(_, _, _)
SerialRows(pre, data, n) ==
    IF n = 0 THEN [db |-> pre, error |-> "none"]
    ELSE LET sofar == SerialRows(pre, data, n - 1) IN
         IF sofar.error # "none" THEN sofar
         ELSE LET res == Execute(AccountStatement(pre, data, n), sofar.db)
              IN  [db |-> res.db, error |-> res.error]

\* The soft deletes of the ids in `ids`, one statement each.
RECURSIVE SerialDeletes(_, _)
SerialDeletes(d, ids) ==
    IF ids = {} THEN d
    ELSE LET id == CHOOSE x \in ids : TRUE
         IN  SerialDeletes(Execute(DeleteAccountQuery(id), d).db, ids \ {id})

\* upsert_accounts(data) run alone from start to end on database d: its
\* outcome and the database it leaves.
SerialUpsertAccounts(d, data) ==
    IF ~Exists(d.tables.Accounts) THEN [db |-> d, outcome |-> "error"]
    ELSE LET rows == SerialRows(d, data, Len(data)) IN
         IF rows.error # "none" THEN [db |-> rows.db, outcome |-> "error"]
         ELSE [db |-> SerialDeletes(rows.db, StoredAccountIds(d) \ FrameIds(data)),
               outcome |-> "ok"]

\* The upsert_accounts of the model, run with no other thread (SpecSeq), ends
\* as SerialUpsertAccounts computes.
SerialUpsertAccountsAgrees ==
    \A t \in Threads :
        (thread[t].op = "upsert_accounts" /\ thread[t].pc = "idle") =>
            LET serial == SerialUpsertAccounts(hist[t].pre, thread[t].data)
            IN  thread[t].outcome = serial.outcome /\ db = serial.db

\* Each of the two threads has made one call, an upsert_accounts, and both
\* calls have ended.
TwoUpsertsEnded ==
    /\ calls = 2
    /\ \A t \in Threads : thread[t].op = "upsert_accounts" /\ thread[t].pc = "idle"

\* The database the two calls started from: upsert_accounts creates no table.
DbBeforeBoth == IF Exists(db.tables.Accounts) THEN StoredDb ELSE FreshDb

\* C15: when two upsert_accounts calls from different threads have both
\* ended, their outcomes and the database are those of running one call to
\* its end and then the other, in one of the two orders.
C15_UpsertAccountsSerializable ==
    TwoUpsertsEnded =>
        \E t, u \in Threads :
            /\ t # u
            /\ LET first == SerialUpsertAccounts(DbBeforeBoth, thread[t].data)
                    second == SerialUpsertAccounts(first.db, thread[u].data)
               IN  /\ thread[t].outcome = first.outcome
                   /\ thread[u].outcome = second.outcome
                   /\ db = second.db

\* Thread t is about to enter a `with WRITE:` block.
Waiting(t) == thread[t].pc \in {"db_init:lock", "write_to_db:lock", "execute_query:lock"}

\* C16: a thread holds the write lock only inside a with block: a thread whose
\* call has ended, normally or with an error, or that is between two writes,
\* does not hold it; and the step in which a write raises leaves the lock
\* free (LockFree, the guard of Acquire), so that any thread can take it.
C16_LockFreeAfterEveryExit ==
    /\ [](\A t \in Threads : lock = t => InWrite(t))
    /\ [][ \A t \in Threads :
              (InWrite(t) /\ thread'[t].pc = "idle" /\ thread'[t].outcome = "error") =>
                    /\ lock' = 0
                    /\ LockFree' ]_vars

\* C16's case: the write of thread u raised inside its with block (the tables
\* it addressed existed, so the error came from the statement or the append),
\* and thread t has taken the lock since.
C16_Witness ==
    \E t, u \in Threads :
        /\ t # u
        /\ thread[u].op \in {"upsert_accounts", "upsert_transactions"}
        /\ thread[u].pc = "idle"
        /\ thread[u].outcome = "error"
        /\ Exists(hist[u].pre.tables.Accounts)
        /\ Exists(hist[u].pre.tables.Transactions)
        /\ lock = t
        /\ InWrite(t)

\* Thread t runs an upsert_accounts or upsert_transactions call.
Upserting(t) ==
    thread[t].op \in {"upsert_accounts", "upsert_transactions"} /\ thread[t].pc # "idle"

\* C17: no thread asks for the write lock while it holds it, and under fair
\* scheduling every upsert_accounts and upsert_transactions call that is
\* running ends, with the lock not held by its thread.
C17_UpsertsTerminate ==
    /\ [](\A t \in Threads : Waiting(t) => lock # t)
    /\ \A t \in Threads : Upserting(t) ~> (thread[t].pc = "idle" /\ lock # t)

\* C17's case: two upserts run at once, one inside its write, the other
\* waiting for the lock after a statement of its own.
C17_Witness ==
    \E t, u \in Threads :
        /\ t # u
        /\ Upserting(t)
        /\ Upserting(u)
        /\ lock = t
        /\ Waiting(u)
        /\ thread[u].i > 1

\* The ids of the rows of data are pairwise distinct.
DistinctIds(data) ==
    \A j, k \in 1..Len(data) : data[j].id = data[k].id => j = k

\* C18: when upsert_accounts(snapshot), snapshot with distinct ids, has
\* returned, and the same thread, with no other writer, calls it again with
\* the same snapshot, the second call returns and leaves the Accounts table
\* exactly as the first call left it.
C18_UpsertAccountsIdempotent ==
    \A t \in Threads :
        (/\ thread[t].op = "upsert_accounts"
         /\ thread[t].pc = "idle"
         /\ hist[t].again
         /\ hist[t].alone
         /\ DistinctIds(thread[t].data)) =>
            /\ thread[t].outcome = "ok"
            /\ db.accounts = hist[t].pre.accounts

====
